---- MODULE Spec2Model ----
(***************************************************************************)
(* The client side of the WebSocket opening handshake                      *)
(* (websockets/client.py): the connect() coroutine and                     *)
(* WebSocketClientProtocol.handshake(), as a state machine whose steps are *)
(* the stretches of code between two suspension points of the coroutine.   *)
(*                                                                         *)
(* Text (Python str) is a sequence of atoms (characters, or words that no  *)
(* operation takes apart), so that join, split, strip and format are       *)
(* computed and not assumed.                                               *)
(* An optional value (Python None or a value) is <<>> or <<v>>.            *)
(***************************************************************************)
EXTENDS Integers, Sequences, FiniteSets, TLC

VARIABLES
    pc,          \* per call: where the connect() coroutine stands
    args,        \* per call: the arguments connect() was called with
    transport,   \* per call: "none", "open", "closing", "closed" or "aborted"
    written,     \* per call: the requests written to the transport, in order
    log,         \* per call: the network operations performed, in order
    state,       \* per call: protocol.state ("absent" before the factory ran)
    key,         \* per call: the handshake key returned by build_request
    raw_request_headers,  \* per call: protocol.raw_request_headers
    response_headers,     \* per call: protocol.response_headers (optional)
    extensions,           \* per call: protocol.extensions (optional)
    subprotocol,          \* per call: protocol.subprotocol (optional)
    opening_handshake,    \* per call: protocol.opening_handshake is resolved
    reply,       \* per call: what read_response delivered (optional)
    incoming,    \* per call: what the peer sent, waiting to be read (optional)
    pending,     \* per call: the exception being handled by connect()'s except
    result       \* per call: how connect() ended

vars == <<pc, args, transport, written, log, state, key, raw_request_headers,
          response_headers, extensions, subprotocol, opening_handshake,
          reply, incoming, pending, result>>

----------------------------------------------------------------------------
(* Bounds and program constants *)

NKeys == 2

SWITCHING_PROTOCOLS == 101

\* the connect() calls; Spec starts the first of them only
Calls == {"c1", "c2"}

Keys == 1..NKeys

----------------------------------------------------------------------------
(* Python values *)

None == <<>>

Some(v) == <<v>>

IsNone(o) == o = <<>>

Get(o) == o[1]

CONNECTING == "CONNECTING"
OPEN == "OPEN"
CLOSED == "CLOSED"

Exc(type, msg, arg, cause) ==
    [type |-> type, msg |-> msg, arg |-> arg, cause |-> cause]

NoExc == Exc("None", "", <<>>, "None")

\* The exception classes, under the names the design gives them:
\* InvalidURIError, ConfigurationError, TransportError, HandshakeError
InvalidURIError == "InvalidURI"
ConfigurationError == "ValueError"
TransportError == "OSError"
HandshakeError == "InvalidHandshake"

InvalidHandshake(msg, arg, cause) == Exc(HandshakeError, msg, arg, cause)

RECURSIVE Digits(_)
Digits(n) ==
    LET d == <<"0", "1", "2", "3", "4", "5", "6", "7", "8", "9">>
    IN  IF n < 10 THEN <<d[n + 1]>> ELSE Digits(n \div 10) \o <<d[(n % 10) + 1]>>

RECURSIVE join(_, _)
join(sep, list) ==
    IF list = <<>> THEN <<>>
    ELSE IF Len(list) = 1 THEN list[1]
    ELSE list[1] \o sep \o join(sep, Tail(list))

RECURSIVE split(_, _)
split(text, sep) ==
    IF \A i \in 1..Len(text) : text[i] # sep THEN <<text>>
    ELSE LET i == CHOOSE j \in 1..Len(text) :
                      text[j] = sep /\ \A m \in 1..(j - 1) : text[m] # sep
         IN  <<SubSeq(text, 1, i - 1)>> \o split(SubSeq(text, i + 1, Len(text)), sep)

\* the characters str.strip() removes, those str.isspace() holds for: space,
\* tab, line feed, carriage return, form feed, then (written as the
\* characters themselves) vertical tab, the separators U+001C to U+001F,
\* U+0085, U+00A0 and U+1680; and the line break atom of the request. The
\* spaces from U+2000 to U+3000 cannot be written in a string here and are
\* atoms of no text of the model
Whitespace ==
    {" ", "\t", "\n", "\r", "\f",
     "", "", "", "", "",
     "", " ", " ",
     "\r\n"}

RECURSIVE strip(_)
strip(text) ==
    IF text = <<>> THEN text
    ELSE IF text[1] \in Whitespace THEN strip(Tail(text))
    ELSE IF text[Len(text)] \in Whitespace
    THEN strip(SubSeq(text, 1, Len(text) - 1))
    ELSE text

Elems(list) == {list[i] : i \in 1..Len(list)}

----------------------------------------------------------------------------
(* The arguments of connect() *)

Host == <<"h">>

Uri(valid, port, secure) ==
    [valid |-> valid, host |-> Host, port |-> port, secure |-> secure,
     resource_name |-> <<"/">>]

Uris ==
    {Uri(FALSE, 80, FALSE), Uri(TRUE, 80, FALSE), Uri(TRUE, 443, FALSE),
     Uri(TRUE, 8080, FALSE), Uri(TRUE, 443, TRUE), Uri(TRUE, 80, TRUE)}

Origins == {None, Some(<<"o">>)}

ExtA == <<"a">>
ExtB == <<"b">>
ExtX == <<"x">>

ExtensionOffers == {None, Some(<<>>), Some(<<ExtA>>), Some(<<ExtA, ExtB>>)}

SubP == <<"p">>
SubQ == <<"q">>

SubprotocolOffers == {None, Some(<<>>), Some(<<SubP>>)}

ExtraHeaders ==
    {[kind |-> "none", items |-> <<>>],
     [kind |-> "mapping", items |-> <<<<"X-A", <<"1">>>>, <<"X-B", <<"2">>>>>>],
     [kind |-> "pairs", items |-> <<<<"X-A", <<"1">>>>, <<"X-A", <<"2">>>>>>],
     [kind |-> "notiterable", items |-> <<>>],
     [kind |-> "notpairs", items |-> <<>>]}

Args ==
    [uri : Uris, ssl : BOOLEAN, origin : Origins, extensions : ExtensionOffers,
     subprotocols : SubprotocolOffers, extra_headers : ExtraHeaders]

DefaultArgs ==
    [uri |-> Uri(TRUE, 80, FALSE), ssl |-> FALSE, origin |-> None,
     extensions |-> None, subprotocols |-> None,
     extra_headers |-> [kind |-> "none", items |-> <<>>]]

----------------------------------------------------------------------------
(* Collaborators that are not part of client.py *)

USER_AGENT == <<"UA">>

GUID == <<"258EAFA5-E914-47DA-95CA-C5AB0DC85B11">>

\* uri.parse_uri: the endpoint descriptor, or InvalidURI
parse_uri(uri) ==
    IF uri.valid
    THEN [exc |-> NoExc, wsuri |-> uri]
    ELSE [exc |-> Exc(InvalidURIError, "", <<>>, "None"), wsuri |-> uri]

\* the transmitted form of the handshake key k
KeyText(k) == <<"K">> \o Digits(k)

\* handshake.accept: base64(sha1(key || GUID)), the hash kept symbolic
accept(k) == <<"b64", "sha1">> \o KeyText(k) \o GUID

\* the same digest computed without the GUID
accept_without_guid(k) == <<"b64", "sha1">> \o KeyText(k)

\* handshake.build_request: sets the key header and returns the key
build_request(headers, k) == Append(headers, <<"Sec-WebSocket-Key", KeyText(k)>>)

\* handshake.check_response: the accept header must be the one expected
check_response(accept_header, k) ==
    IF accept_header = accept(k)
    THEN NoExc
    ELSE InvalidHandshake("Invalid response", <<>>, "None")

----------------------------------------------------------------------------
(* WebSocketClientProtocol.handshake: building and sending the request *)

\* a line 61 that takes 80 for the default port of every scheme
HostHeader_default_80(wsuri) ==
    IF wsuri.port = 80
    THEN <<"Host", wsuri.host>>
    ELSE <<"Host", wsuri.host \o <<":">> \o Digits(wsuri.port)>>

HostHeader(wsuri) ==
    IF wsuri.port = (IF wsuri.secure THEN 443 ELSE 80)
    THEN <<"Host", wsuri.host>>
    ELSE <<"Host", wsuri.host \o <<":">> \o Digits(wsuri.port)>>

OriginHeaders(origin) ==
    IF ~IsNone(origin) THEN <<<<"Origin", Get(origin)>>>> ELSE <<>>

OfferHeaders(name, available) ==
    IF ~IsNone(available)
    THEN <<<<name, join(<<",", " ">>, Get(available))>>>>
    ELSE <<>>

\* lines 73-77: the caller's headers, or the exception iterating them raises
ExtraHeaderItems(extra_headers) ==
    CASE extra_headers.kind = "none" -> [exc |-> NoExc, items |-> <<>>]
      [] extra_headers.kind = "mapping" ->
            [exc |-> NoExc, items |-> extra_headers.items]
      [] extra_headers.kind = "pairs" ->
            [exc |-> NoExc, items |-> extra_headers.items]
      [] extra_headers.kind = "notiterable" ->
            [exc |-> Exc("TypeError", "object is not iterable", <<>>, "None"),
             items |-> <<>>]
      [] extra_headers.kind = "notpairs" ->
            [exc |-> Exc("ValueError", "not enough values to unpack", <<>>, "None"),
             items |-> <<>>]

\* a handshake() that sets User-Agent before the caller's headers
BuildHeaders_agent_before_extra(a, k) ==
    LET extra == ExtraHeaderItems(a.extra_headers)
        before == <<HostHeader(a.uri)>>
                  \o OriginHeaders(a.origin)
                  \o OfferHeaders("Sec-WebSocket-Extensions", a.extensions)
                  \o OfferHeaders("Sec-WebSocket-Protocol", a.subprotocols)
    IN  IF extra.exc # NoExc
        THEN [exc |-> extra.exc, headers |-> before]
        ELSE [exc |-> NoExc,
              headers |-> build_request(
                  before \o <<<<"User-Agent", USER_AGENT>>>> \o extra.items, k)]

\* lines 59-79: the header list and the exception raised while building it
BuildHeaders(a, k) ==
    LET extra == ExtraHeaderItems(a.extra_headers)
        before == <<HostHeader(a.uri)>>
                  \o OriginHeaders(a.origin)
                  \o OfferHeaders("Sec-WebSocket-Extensions", a.extensions)
                  \o OfferHeaders("Sec-WebSocket-Protocol", a.subprotocols)
    IN  IF extra.exc # NoExc
        THEN [exc |-> extra.exc, headers |-> before]
        ELSE [exc |-> NoExc,
              headers |-> build_request(
                  before \o extra.items \o <<<<"User-Agent", USER_AGENT>>>>, k)]

\* lines 88-91: the request as written to the transport
SerializeRequest(wsuri, headers) ==
    join(<<"\r\n">>,
         <<<<"GET", " ">> \o wsuri.resource_name \o <<" ", "HTTP/1.1">>>>
         \o [i \in 1..Len(headers) |-> <<headers[i][1], ":", " ">> \o headers[i][2]]
         \o <<<<"\r\n">>>>)

----------------------------------------------------------------------------
(* What read_response may deliver *)

Statuses == {SWITCHING_PROTOCOLS, 200}

AcceptHeaders ==
    {None} \cup {Some(accept(k)) : k \in Keys}
           \cup {Some(accept_without_guid(k)) : k \in Keys}

ExtensionHeaders ==
    {None, Some(<<>>), Some(<<"a">>), Some(<<"x">>), Some(<<" ", "a">>),
     Some(<<"a", ",", " ", "b">>), Some(<<"a", ",", "\t", "b">>),
     Some(<<"a", ",", "x">>)}

SubprotocolHeaders == {None, Some(SubP), Some(SubQ)}

Response(status, acc, ext, sub) ==
    [kind |-> "response", status |-> status, accept |-> acc,
     extensions |-> ext, subprotocol |-> sub]

\* read_response raised: the message does not parse, or the transport closed
ReadFailure(kind) == [Response(0, None, None, None) EXCEPT !.kind = kind]

Replies ==
    {Response(s, a, e, p) : s \in Statuses, a \in AcceptHeaders,
                            e \in ExtensionHeaders, p \in SubprotocolHeaders}
    \cup {ReadFailure("parse_error"), ReadFailure("eof")}

\* the exception read_response raises for a reply that is no response
ReadException(r) ==
    CASE r.kind = "parse_error" -> "ValueError"
      [] r.kind = "eof" -> TransportError
      [] r.kind = "cancelled" -> "CancelledError"
      [] OTHER -> "None"

----------------------------------------------------------------------------
(* WebSocketClientProtocol.handshake: validating the response *)

\* headers.get(k, default)
get_header(header, default) == IF IsNone(header) THEN default ELSE Get(header)

\* x in available, where available may be None
Contains(available, x) == x \in Elems(Get(available))

NoneNotIterable ==
    Exc("TypeError", "argument of type 'NoneType' is not iterable", <<>>, "None")

verify_extensions(server_extensions, available_extensions) ==
    IF server_extensions = <<>>
    THEN NoExc
    ELSE IF IsNone(available_extensions)
    THEN NoneNotIterable
    ELSE IF \A i \in 1..Len(server_extensions) :
                Contains(available_extensions, server_extensions[i])
    THEN NoExc
    ELSE LET i == CHOOSE j \in 1..Len(server_extensions) :
                      /\ ~Contains(available_extensions, server_extensions[j])
                      /\ \A m \in 1..(j - 1) :
                            Contains(available_extensions, server_extensions[m])
         IN  InvalidHandshake("Unknown extension: {}", server_extensions[i], "None")

\* a verify_subprotocol that accepts whatever the server selected
verify_subprotocol_unchecked(server_subprotocol, available_subprotocols) == NoExc

verify_subprotocol(server_subprotocol, available_subprotocols) ==
    IF IsNone(available_subprotocols)
    THEN NoneNotIterable
    ELSE IF Contains(available_subprotocols, server_subprotocol)
    THEN NoExc
    ELSE InvalidHandshake("Unknown subprotocol: {}", server_subprotocol, "None")

\* line 110
ParseExtensions(header) ==
    LET parts == split(header, ",")
    IN  [i \in 1..Len(parts) |-> strip(parts[i])]

\* a line 105 whose default is the expected value: an absent header passes
CheckAccept_absent_passes(r, k) == check_response(get_header(r.accept, accept(k)), k)

\* lines 105-106
CheckAccept(r, k) == check_response(get_header(r.accept, <<>>), k)

\* a line 112 that records the offers in place of the server's selection
CheckExtensions_keeps_offers(r, available_extensions) ==
    IF IsNone(r.extensions)
    THEN [exc |-> NoExc, extensions |-> None]
    ELSE LET e == ParseExtensions(Get(r.extensions))
             x == verify_extensions(e, available_extensions)
         IN  [exc |-> x,
              extensions |-> IF x = NoExc THEN available_extensions ELSE None]

\* lines 108-112: the exception raised and self.extensions afterwards
CheckExtensions(r, available_extensions) ==
    IF IsNone(r.extensions)
    THEN [exc |-> NoExc, extensions |-> None]
    ELSE LET e == ParseExtensions(Get(r.extensions))
             x == verify_extensions(e, available_extensions)
         IN  [exc |-> x, extensions |-> IF x = NoExc THEN Some(e) ELSE None]

\* lines 114-117: the exception raised and self.subprotocol afterwards
CheckSubprotocol(r, available_subprotocols) ==
    IF IsNone(r.subprotocol)
    THEN [exc |-> NoExc, subprotocol |-> None]
    ELSE LET x == verify_subprotocol(Get(r.subprotocol), available_subprotocols)
         IN  [exc |-> x,
              subprotocol |-> IF x = NoExc THEN r.subprotocol ELSE None]

Outcome(exc, headers, ext, sub) ==
    [exc |-> exc, response_headers |-> headers, extensions |-> ext,
     subprotocol |-> sub]

\* a handshake() that verifies the accept header before the status code
HandshakeResume_accept_first(r, k, st, available_extensions, available_subprotocols) ==
    LET acc == CheckAccept(r, k)
        ext == CheckExtensions(r, available_extensions)
        sub == CheckSubprotocol(r, available_subprotocols)
    IN  IF r.kind # "response"
        THEN Outcome(InvalidHandshake("Malformed HTTP message", <<>>,
                                      ReadException(r)), None, None, None)
        ELSE IF acc # NoExc THEN Outcome(acc, Some(r), None, None)
        ELSE IF r.status # SWITCHING_PROTOCOLS
        THEN Outcome(InvalidHandshake("Bad status code: {}", Digits(r.status),
                                      "None"), None, None, None)
        ELSE IF ext.exc # NoExc THEN Outcome(ext.exc, Some(r), None, None)
        ELSE IF sub.exc # NoExc
        THEN Outcome(sub.exc, Some(r), ext.extensions, None)
        ELSE Outcome(NoExc, Some(r), ext.extensions, sub.subprotocol)

\* lines 95-121, from the moment read_response delivers r: the exception
\* raised (NoExc when line 121 is reached) and the fields assigned on the way
HandshakeResume(r, k, st, available_extensions, available_subprotocols) ==
    LET acc == CheckAccept(r, k)
        ext == CheckExtensions(r, available_extensions)
        sub == CheckSubprotocol(r, available_subprotocols)
    IN  IF r.kind # "response"
        THEN Outcome(InvalidHandshake("Malformed HTTP message", <<>>,
                                      ReadException(r)), None, None, None)
        ELSE IF r.status # SWITCHING_PROTOCOLS
        THEN Outcome(InvalidHandshake("Bad status code: {}", Digits(r.status),
                                      "None"), None, None, None)
        ELSE IF acc # NoExc THEN Outcome(acc, Some(r), None, None)
        ELSE IF ext.exc # NoExc THEN Outcome(ext.exc, Some(r), None, None)
        ELSE IF sub.exc # NoExc
        THEN Outcome(sub.exc, Some(r), ext.extensions, None)
        ELSE IF st # CONNECTING
        THEN Outcome(Exc("AssertionError", "", <<>>, "None"), Some(r),
                     ext.extensions, sub.subprotocol)
        ELSE Outcome(NoExc, Some(r), ext.extensions, sub.subprotocol)

----------------------------------------------------------------------------
(* connect() *)

Pending == [kind |-> "pending", exc |-> NoExc]

Return == [kind |-> "return", exc |-> NoExc]

Raise(exc) == [kind |-> "raise", exc |-> exc]

\* asyncio.CancelledError is an Exception up to Python 3.7 and a
\* BaseException, which "except Exception" lets through, from Python 3.8 on
CancelledErrorIsException == BOOLEAN

\* protocol.close_connection(force=True), up to its suspension: the transport
\* is aborted
force_close(t) == "aborted"

\* a connect() without the guard of lines 185-187
ConnectChecks_no_tls_guard(a) == parse_uri(a.uri).exc

\* lines 182-187: the exception connect() raises before it opens anything
ConnectChecks(a) ==
    LET p == parse_uri(a.uri)
    IN  IF p.exc # NoExc THEN p.exc
        ELSE IF p.wsuri.secure THEN NoExc
        ELSE IF a.ssl
        THEN Exc(ConfigurationError,
                 "connect() received a SSL context for a ws:// URI", <<>>, "None")
        ELSE NoExc

\* lines 182-196: up to the suspension in loop.create_connection
Connect(c) ==
    /\ pc[c] = "start"
    /\ LET x == ConnectChecks(args[c])
       IN  IF x # NoExc
           THEN /\ result' = [result EXCEPT ![c] = Raise(x)]
                /\ pc' = [pc EXCEPT ![c] = "done"]
                /\ log' = log
           ELSE /\ pc' = [pc EXCEPT ![c] = "create_connection"]
                /\ log' = [log EXCEPT ![c] = Append(@, "create_connection")]
                /\ result' = result
    /\ UNCHANGED <<args, transport, written, state, key, raw_request_headers,
                   response_headers, extensions, subprotocol,
                   opening_handshake, reply, incoming, pending>>

\* lines 188-190 and 28-38: while connect() is suspended at line 196 the loop
\* has connected the socket and calls the factory; the protocol exists, in
\* state CONNECTING, with no transport yet
Factory(c) ==
    /\ pc[c] = "create_connection"
    /\ state[c] = "absent"
    /\ state' = [state EXCEPT ![c] = CONNECTING]
    /\ UNCHANGED <<pc, args, transport, written, log, key, raw_request_headers,
                   response_headers, extensions, subprotocol,
                   opening_handshake, reply, incoming, pending, result>>

\* the loop hands the transport to the protocol (connection_made) and
\* resolves create_connection; connect() is still suspended at line 196
ConnectionMade(c) ==
    /\ pc[c] = "create_connection"
    /\ state[c] = CONNECTING
    /\ transport[c] = "none"
    /\ transport' = [transport EXCEPT ![c] = "open"]
    /\ log' = [log EXCEPT ![c] = Append(@, "open")]
    /\ UNCHANGED <<pc, args, written, state, key, raw_request_headers,
                   response_headers, extensions, subprotocol,
                   opening_handshake, reply, incoming, pending, result>>

\* what the loop does with the transport it was setting up for a protocol
\* when create_connection ends with an exception: it closes it
loop_close(st, t) == IF st = "absent" THEN t ELSE "closing"

\* line 196: loop.create_connection raises: the connection is refused before
\* the factory ran, or the TLS handshake fails after it ran, in which case
\* the loop closes the transport it had made for the protocol
CreateConnectionFails(c) ==
    /\ pc[c] = "create_connection"
    /\ transport[c] = "none"
    /\ state[c] = CONNECTING => args[c].uri.secure
    /\ transport' = [transport EXCEPT ![c] = loop_close(state[c], @)]
    /\ log' = [log EXCEPT ![c] =
                  @ \o (IF state[c] = "absent" THEN <<>> ELSE <<"close">>)]
    /\ result' = [result EXCEPT ![c] = Raise(Exc(TransportError, "", <<>>, "None"))]
    /\ pc' = [pc EXCEPT ![c] = "done"]
    /\ UNCHANGED <<args, written, state, key,
                   raw_request_headers, response_headers, extensions,
                   subprotocol, opening_handshake, reply, incoming, pending>>

\* line 196: the caller cancels connect() while it is suspended in
\* create_connection: before the factory ran the loop discards the socket;
\* after it ran the loop closes the transport, opened or not
CancelCreateConnection(c) ==
    /\ pc[c] = "create_connection"
    /\ transport' = [transport EXCEPT ![c] = loop_close(state[c], @)]
    /\ log' = [log EXCEPT ![c] =
                  @ \o (IF state[c] = "absent" THEN <<>> ELSE <<"close">>)]
    /\ result' = [result EXCEPT ![c] =
                      Raise(Exc("CancelledError", "", <<>>, "None"))]
    /\ pc' = [pc EXCEPT ![c] = "done"]
    /\ UNCHANGED <<args, written, state, key,
                   raw_request_headers, response_headers, extensions,
                   subprotocol, opening_handshake, reply, incoming, pending>>

\* the transport the loop closed has gone: connection_lost closes the
\* connection
ConnectionLost(c) ==
    /\ transport[c] = "closing"
    /\ transport' = [transport EXCEPT ![c] = "closed"]
    /\ state' = [state EXCEPT ![c] = CLOSED]
    /\ UNCHANGED <<pc, args, written, log, key, raw_request_headers,
                   response_headers, extensions, subprotocol,
                   opening_handshake, reply, incoming, pending, result>>

\* a connect() without its try/except: the exception leaves connect() at once
HandshakeRaises_unclosed(c, exc) ==
    /\ result' = [result EXCEPT ![c] = Raise(exc)]
    /\ pc' = [pc EXCEPT ![c] = "done"]
    /\ UNCHANGED <<transport, log, pending>>

\* an except clause that closes every connection of the process, not its own
HandshakeRaises_aborts_all(c, exc) ==
    /\ transport' = [d \in Calls |->
                         IF d = c \/ transport[d] = "open"
                         THEN force_close(transport[d]) ELSE transport[d]]
    /\ log' = [log EXCEPT ![c] = Append(@, "abort")]
    /\ pending' = [pending EXCEPT ![c] = exc]
    /\ pc' = [pc EXCEPT ![c] = "close_connection"]
    /\ result' = result

\* lines 206-207: connect() catches the exception handshake() raised and
\* calls close_connection(force=True), which suspends
HandshakeRaises(c, exc) ==
    /\ transport' = [transport EXCEPT ![c] = force_close(@)]
    /\ log' = [log EXCEPT ![c] = Append(@, "abort")]
    /\ pending' = [pending EXCEPT ![c] = exc]
    /\ pc' = [pc EXCEPT ![c] = "close_connection"]
    /\ result' = result

\* lines 196-205 and 59-96: the loop resumes connect() with the transport
\* and the protocol; handshake() builds and writes the request and suspends
\* in read_response, or raises into connect()'s except clause (lines
\* 206-207), which starts the forced close
CreateConnection(c) ==
    /\ pc[c] = "create_connection"
    /\ transport[c] = "open"
    /\ \E k \in Keys :
          LET b == BuildHeaders(args[c], k)
          IN  IF b.exc # NoExc
              THEN /\ HandshakeRaises(c, b.exc)
                   /\ UNCHANGED <<key, raw_request_headers, written>>
              ELSE /\ key' = [key EXCEPT ![c] = Some(k)]
                   /\ raw_request_headers' =
                          [raw_request_headers EXCEPT ![c] = b.headers]
                   /\ written' = [written EXCEPT ![c] =
                          Append(@, SerializeRequest(args[c].uri, b.headers))]
                   /\ log' = [log EXCEPT ![c] = @ \o <<"write", "read">>]
                   /\ pc' = [pc EXCEPT ![c] = "read_response"]
                   /\ UNCHANGED <<transport, pending, result>>
    /\ UNCHANGED <<args, state, response_headers, extensions, subprotocol,
                   opening_handshake, reply, incoming>>

\* the peer's answer, or the end of its stream, reaches the protocol while
\* handshake() is suspended in read_response (line 96)
DataReceivedFrom(c, R) ==
    /\ pc[c] = "read_response"
    /\ IsNone(incoming[c])
    /\ \E r \in R : incoming' = [incoming EXCEPT ![c] = Some(r)]
    /\ UNCHANGED <<pc, args, transport, written, log, state, key,
                   raw_request_headers, response_headers, extensions,
                   subprotocol, opening_handshake, reply, pending, result>>

DataReceived(c) == DataReceivedFrom(c, Replies)

\* a handshake() that sets state = OPEN (line 120) before it validates
Resume_open_before_checks(c, r) ==
    LET h == HandshakeResume(r, Get(key[c]), state[c], args[c].extensions,
                             args[c].subprotocols)
    IN  /\ reply' = [reply EXCEPT ![c] = Some(r)]
        /\ response_headers' = [response_headers EXCEPT ![c] = h.response_headers]
        /\ extensions' = [extensions EXCEPT ![c] = h.extensions]
        /\ subprotocol' = [subprotocol EXCEPT ![c] = h.subprotocol]
        /\ state' = [state EXCEPT ![c] = OPEN]
        /\ IF h.exc = NoExc
           THEN /\ opening_handshake' = [opening_handshake EXCEPT ![c] = TRUE]
                /\ result' = [result EXCEPT ![c] = Return]
                /\ pc' = [pc EXCEPT ![c] = "done"]
                /\ UNCHANGED <<transport, log, pending>>
           ELSE /\ HandshakeRaises(c, h.exc)
                /\ UNCHANGED opening_handshake
        /\ UNCHANGED <<args, written, key, raw_request_headers>>

\* lines 96-121 and 206-210 once read_response has delivered r: handshake()
\* runs to its end and connect() returns the protocol, or handshake() raises
\* and connect() starts the forced close
Resume(c, r) ==
    LET h == HandshakeResume(r, Get(key[c]), state[c], args[c].extensions,
                             args[c].subprotocols)
    IN  /\ reply' = [reply EXCEPT ![c] = Some(r)]
        /\ response_headers' = [response_headers EXCEPT ![c] = h.response_headers]
        /\ extensions' = [extensions EXCEPT ![c] = h.extensions]
        /\ subprotocol' = [subprotocol EXCEPT ![c] = h.subprotocol]
        /\ IF h.exc = NoExc
           THEN /\ state' = [state EXCEPT ![c] = OPEN]
                /\ opening_handshake' = [opening_handshake EXCEPT ![c] = TRUE]
                /\ result' = [result EXCEPT ![c] = Return]
                /\ pc' = [pc EXCEPT ![c] = "done"]
                /\ UNCHANGED <<transport, log, pending>>
           ELSE /\ HandshakeRaises(c, h.exc)
                /\ UNCHANGED <<state, opening_handshake>>
        /\ UNCHANGED <<args, written, key, raw_request_headers>>

\* line 96: what the peer sent is in the stream, the loop resumes
\* handshake() and read_response delivers it
ReadResponse(c) ==
    /\ pc[c] = "read_response"
    /\ ~IsNone(incoming[c])
    /\ Resume(c, Get(incoming[c]))
    /\ incoming' = [incoming EXCEPT ![c] = None]

\* line 96: the caller cancels connect() while it waits for the response.
\* Where CancelledError is an Exception, line 97 catches it and the handshake
\* goes on as for any failed read; where it is not, it leaves handshake() and
\* connect() through neither except clause. Nothing reads the stream after
\* that
CancelReadResponse(c) ==
    /\ pc[c] = "read_response"
    /\ incoming' = [incoming EXCEPT ![c] = None]
    /\ \E is_exception \in CancelledErrorIsException :
          IF is_exception
          THEN Resume(c, ReadFailure("cancelled"))
          ELSE /\ reply' = [reply EXCEPT ![c] = Some(ReadFailure("cancelled"))]
               /\ result' = [result EXCEPT ![c] =
                                 Raise(Exc("CancelledError", "", <<>>, "None"))]
               /\ pc' = [pc EXCEPT ![c] = "done"]
               /\ UNCHANGED <<args, transport, written, log, state, key,
                              raw_request_headers, response_headers,
                              extensions, subprotocol, opening_handshake,
                              pending>>

\* an except clause without its "raise": connect() goes on to line 210
CloseConnection_returns(c) ==
    /\ pc[c] = "close_connection"
    /\ state' = [state EXCEPT ![c] = CLOSED]
    /\ result' = [result EXCEPT ![c] = Return]
    /\ pc' = [pc EXCEPT ![c] = "done"]
    /\ UNCHANGED <<args, transport, written, log, key, raw_request_headers,
                   response_headers, extensions, subprotocol,
                   opening_handshake, reply, incoming, pending>>

\* an except clause that tries again in place of raising
CloseConnection_retries(c) ==
    /\ pc[c] = "close_connection"
    /\ state' = [state EXCEPT ![c] = CLOSED]
    /\ pc' = [pc EXCEPT ![c] = "create_connection"]
    /\ log' = [log EXCEPT ![c] = Append(@, "create_connection")]
    /\ UNCHANGED <<args, transport, written, key, raw_request_headers,
                   response_headers, extensions, subprotocol,
                   opening_handshake, reply, incoming, pending, result>>

\* an except clause that resolves the opening handshake before it raises
CloseConnection_resolves(c) ==
    /\ pc[c] = "close_connection"
    /\ state' = [state EXCEPT ![c] = CLOSED]
    /\ opening_handshake' = [opening_handshake EXCEPT ![c] = TRUE]
    /\ result' = [result EXCEPT ![c] = Raise(pending[c])]
    /\ pc' = [pc EXCEPT ![c] = "done"]
    /\ UNCHANGED <<args, transport, written, log, key, raw_request_headers,
                   response_headers, extensions, subprotocol, reply, incoming,
                   pending>>

\* lines 207-208: close_connection(force=True) completes, the connection is
\* closed, and connect() re-raises the exception it caught
CloseConnection(c) ==
    /\ pc[c] = "close_connection"
    /\ state' = [state EXCEPT ![c] = CLOSED]
    /\ result' = [result EXCEPT ![c] = Raise(pending[c])]
    /\ pc' = [pc EXCEPT ![c] = "done"]
    /\ UNCHANGED <<args, transport, written, log, key, raw_request_headers,
                   response_headers, extensions, subprotocol,
                   opening_handshake, reply, incoming, pending>>

\* the exceptions the wait inside close_connection(force=True) may end with:
\* the caller cancels connect() there, or the teardown itself fails
TeardownErrors == {"CancelledError", TransportError}

\* line 207: close_connection(force=True) raises after it has aborted the
\* transport; the exception leaves connect() from inside the except clause,
\* with the exception that was being handled as its context only
CloseConnectionRaises(c) ==
    /\ pc[c] = "close_connection"
    /\ \E t \in TeardownErrors :
          result' = [result EXCEPT ![c] = Raise(Exc(t, "", <<>>, "None"))]
    /\ pc' = [pc EXCEPT ![c] = "done"]
    /\ UNCHANGED <<args, transport, written, log, state, key,
                   raw_request_headers, response_headers, extensions,
                   subprotocol, opening_handshake, reply, incoming, pending>>

----------------------------------------------------------------------------
(* Specifications *)

InitCalls(started) ==
    /\ pc = [c \in Calls |-> IF c \in started THEN "start" ELSE "unused"]
    /\ transport = [c \in Calls |-> "none"]
    /\ written = [c \in Calls |-> <<>>]
    /\ log = [c \in Calls |-> <<>>]
    /\ state = [c \in Calls |-> "absent"]
    /\ key = [c \in Calls |-> None]
    /\ raw_request_headers = [c \in Calls |-> <<>>]
    /\ response_headers = [c \in Calls |-> None]
    /\ extensions = [c \in Calls |-> None]
    /\ subprotocol = [c \in Calls |-> None]
    /\ opening_handshake = [c \in Calls |-> FALSE]
    /\ reply = [c \in Calls |-> None]
    /\ incoming = [c \in Calls |-> None]
    /\ pending = [c \in Calls |-> NoExc]
    /\ result = [c \in Calls |-> Pending]

\* one connect() call, with any arguments
Init ==
    /\ \E a \in Args : args = [c \in Calls |-> IF c = "c1" THEN a ELSE DefaultArgs]
    /\ InitCalls({"c1"})

Next ==
    \E c \in Calls :
        \/ Connect(c)
        \/ Factory(c)
        \/ ConnectionMade(c)
        \/ CreateConnectionFails(c)
        \/ CancelCreateConnection(c)
        \/ ConnectionLost(c)
        \/ CreateConnection(c)
        \/ DataReceived(c)
        \/ ReadResponse(c)
        \/ CancelReadResponse(c)
        \/ CloseConnection(c)
        \/ CloseConnectionRaises(c)

Spec == Init /\ [][Next]_vars

\* the event loop runs a coroutine whose awaited future is resolved:
\* connect() once create_connection has its transport, handshake() once the
\* peer's answer is in the stream. Nothing makes the peer answer, the
\* connection come up or the forced close end: those steps are not fair
Fairness ==
    \A c \in Calls :
        /\ WF_vars(CreateConnection(c))
        /\ WF_vars(ReadResponse(c))

\* one connect() call that gets as far as opening the transport: a valid
\* endpoint on the default port of its scheme, consistent TLS options, any
\* offers
LiveArgs ==
    {a \in Args : /\ ConnectChecks(a) = NoExc
                  /\ a.uri \in {Uri(TRUE, 80, FALSE), Uri(TRUE, 443, TRUE)}
                  /\ a.origin = None
                  /\ a.extra_headers.kind = "none"}

\* the calls made under the fair specification
LiveCalls == {"c1"}

InitLive ==
    /\ \E a \in LiveArgs :
          args = [c \in Calls |-> IF c \in LiveCalls THEN a ELSE DefaultArgs]
    /\ InitCalls(LiveCalls)

\* the answers of a server that computes the accept value of some key as
\* the protocol says, and the failed reads
LiveReplies ==
    {r \in Replies :
         r.kind = "response" => r.accept \in {Some(accept(k)) : k \in Keys}}

DataReceivedLive(c) == DataReceivedFrom(c, LiveReplies)

NextLive ==
    \E c \in Calls :
        \/ Connect(c)
        \/ Factory(c)
        \/ ConnectionMade(c)
        \/ CreateConnectionFails(c)
        \/ CancelCreateConnection(c)
        \/ ConnectionLost(c)
        \/ CreateConnection(c)
        \/ DataReceivedLive(c)
        \/ ReadResponse(c)
        \/ CancelReadResponse(c)
        \/ CloseConnection(c)
        \/ CloseConnectionRaises(c)

FairSpec == InitLive /\ [][NextLive]_vars /\ Fairness

\* two connect() calls running concurrently, with few arguments and replies
ConcArgs ==
    {a \in Args : /\ a.uri = Uri(TRUE, 80, FALSE)
                  /\ ~a.ssl
                  /\ a.origin = None
                  /\ a.extensions \in {None, Some(<<ExtA>>)}
                  /\ a.subprotocols = None
                  /\ a.extra_headers.kind \in {"none", "notiterable"}}

ConcReplies ==
    {Response(SWITCHING_PROTOCOLS, Some(accept(k)), e, None) :
         k \in Keys, e \in {None, Some(<<"a">>), Some(<<"x">>)}}
    \cup {Response(200, None, None, None), ReadFailure("eof")}

InitConc ==
    /\ args \in [Calls -> ConcArgs]
    /\ InitCalls(Calls)

DataReceivedConc(c) == DataReceivedFrom(c, ConcReplies)

NextConc ==
    \E c \in Calls :
        \/ Connect(c)
        \/ Factory(c)
        \/ ConnectionMade(c)
        \/ CreateConnectionFails(c)
        \/ CancelCreateConnection(c)
        \/ ConnectionLost(c)
        \/ CreateConnection(c)
        \/ DataReceivedConc(c)
        \/ ReadResponse(c)
        \/ CancelReadResponse(c)
        \/ CloseConnection(c)
        \/ CloseConnectionRaises(c)

SpecConc == InitConc /\ [][NextConc]_vars

----------------------------------------------------------------------------
(* Properties *)

\* the exception that made the call fail: the one handshake() raised, which
\* connect() caught, or else the one connect() raised
Error(c) == IF pending[c] # NoExc THEN pending[c] ELSE result[c].exc

Failed(c) == pc[c] = "close_connection" \/ result[c].kind = "raise"

Opened(c) == "open" \in Elems(log[c])

GotResponse(c) == ~IsNone(reply[c]) /\ Get(reply[c]).kind = "response"

\* the extension tokens a response declares
DeclaredExtensions(r) ==
    IF IsNone(r.extensions) THEN {} ELSE Elems(ParseExtensions(Get(r.extensions)))

\* token is one of the offers (no offers at all: nothing is offered)
Offered(available, token) ==
    ~IsNone(available) /\ token \in Elems(Get(available))

NoNetworkActivity(c) ==
    log[c] = <<>> /\ transport[c] = "none" /\ written[c] = <<>>

\* C1: a connection is OPEN only if the response had status 101, its accept
\* value was the one expected for this attempt's key, every extension token
\* it declared was offered and the subprotocol it declared was offered.
C1_OpenOnlyIfVerified ==
    \A c \in Calls :
        state[c] = OPEN =>
            /\ GotResponse(c)
            /\ LET r == Get(reply[c])
               IN  /\ r.status = 101
                   /\ r.accept = Some(accept(Get(key[c])))
                   /\ \A t \in DeclaredExtensions(r) :
                          Offered(args[c].extensions, t)
                   /\ ~IsNone(r.subprotocol) =>
                          Offered(args[c].subprotocols, Get(r.subprotocol))

C1_Witness ==
    \E c \in Calls :
        /\ state[c] = OPEN
        /\ Get(reply[c]).extensions = Some(<<"a", ",", " ", "b">>)
        /\ Get(reply[c]).subprotocol = Some(SubP)

\* C2: when the transport was opened and the handshake then fails (building
\* the request, reading the response or validating it), the transport has
\* been aborted by the time the error leaves connect(), and no call that
\* ended with such an error has an open transport.
C2_FailureAbortsTransport ==
    /\ [](\A c \in Calls :
              (result[c].kind = "raise" /\ Opened(c)
                   /\ result[c].exc.type # "CancelledError")
              => transport[c] = "aborted")
    /\ [][\A c \in Calls :
              (result[c].kind = "pending" /\ result'[c].kind = "raise"
                   /\ Opened(c)' /\ result'[c].exc.type # "CancelledError")
              => (transport[c] = "aborted" /\ transport'[c] = "aborted")]_vars

C2_Witness ==
    \E c \in Calls :
        /\ result[c].kind = "raise"
        /\ result[c].exc.msg = "Unknown extension: {}"
        /\ transport[c] = "aborted"

\* C3: connect() returns a handle only in state OPEN, and returns none when
\* it fails.
C3_ReturnedHandleIsOpen ==
    \A c \in Calls :
        /\ result[c].kind = "return" => state[c] = OPEN
        /\ (pc[c] = "done" /\ state[c] # OPEN) => result[c].kind = "raise"

C3_Witness ==
    \E c \in Calls :
        /\ result[c].kind = "return"
        /\ state[c] = OPEN
        /\ opening_handshake[c]

\* C4: a connect() call that was cancelled at a suspension point and has
\* ended leaves no open transport.
Cancelled(c) ==
    \/ result[c].exc.type = "CancelledError"
    \/ (~IsNone(reply[c]) /\ Get(reply[c]).kind = "cancelled")

C4_CancelClosesTransport ==
    \A c \in Calls : (pc[c] = "done" /\ Cancelled(c)) => transport[c] # "open"

\* C5: with a malformed URI connect() raises InvalidURI, and with a TLS
\* configuration for a ws:// endpoint it raises the configuration error,
\* both without any network activity.
C5_FailFast ==
    \A c \in Calls :
        /\ ~args[c].uri.valid =>
              /\ NoNetworkActivity(c)
              /\ pc[c] = "done" => result[c] = Raise(Exc(InvalidURIError, "", <<>>, "None"))
        /\ (args[c].uri.valid /\ ~args[c].uri.secure /\ args[c].ssl) =>
              /\ NoNetworkActivity(c)
              /\ pc[c] = "done" => /\ result[c].kind = "raise"
                                   /\ result[c].exc.type = ConfigurationError

C5_Witness ==
    \E c \in Calls :
        /\ pc[c] = "done"
        /\ args[c].uri.valid /\ ~args[c].uri.secure /\ args[c].ssl
        /\ result[c].exc.type = ConfigurationError

\* C6: with extra headers that are neither a mapping nor an iterable of
\* pairs, connect() raises the configuration error before any network
\* activity: the transport is never opened and nothing is written (a call
\* whose URI or TLS options are refused first, or whose transport cannot be
\* opened, ends with that error instead).
MalformedExtraHeaders(c) ==
    args[c].extra_headers.kind \in {"notiterable", "notpairs"}

C6_MalformedHeadersFailFast ==
    \A c \in Calls :
        (MalformedExtraHeaders(c) /\ ConnectChecks(args[c]) = NoExc) =>
            /\ ~Opened(c) /\ transport[c] = "none" /\ written[c] = <<>>
            /\ (pc[c] = "done"
                    /\ result[c].exc.type \notin {TransportError, "CancelledError"})
               => /\ result[c].kind = "raise"
                  /\ result[c].exc.type = ConfigurationError

\* C7: the error of a failed handshake is that of the first failing check in
\* the order: response read, status code, accept value, extensions,
\* subprotocol.
C7_FirstFailingCheck ==
    \A c \in Calls :
        (pc[c] \in {"close_connection", "done"} /\ ~IsNone(reply[c])
             /\ ~(pc[c] = "done" /\ result[c].exc.type = "CancelledError")) =>
            LET r == Get(reply[c])
                acceptOk == r.accept = Some(accept(Get(key[c])))
                unknownExt == \E t \in DeclaredExtensions(r) :
                                  ~Offered(args[c].extensions, t)
            IN  /\ r.kind # "response" =>
                      /\ Failed(c)
                      /\ Error(c).type = HandshakeError
                      /\ Error(c).msg = "Malformed HTTP message"
                /\ (r.kind = "response" /\ r.status = 200) =>
                      /\ Failed(c)
                      /\ Error(c) = Exc(HandshakeError, "Bad status code: {}",
                                        <<"2", "0", "0">>, "None")
                /\ (r.kind = "response" /\ r.status = 101 /\ ~acceptOk) =>
                      /\ Failed(c)
                      /\ Error(c) = Exc(HandshakeError, "Invalid response",
                                        <<>>, "None")
                /\ (r.kind = "response" /\ r.status = 101 /\ acceptOk
                        /\ unknownExt) =>
                      /\ Failed(c)
                      /\ Error(c).msg # "Unknown subprotocol: {}"
                      /\ IsNone(extensions[c])
                      /\ ~IsNone(args[c].extensions) =>
                             Error(c).msg = "Unknown extension: {}"

C7_Witness ==
    \E c \in Calls :
        /\ pc[c] = "done"
        /\ GotResponse(c)
        /\ Get(reply[c]).status = 200
        /\ Get(reply[c]).accept = None
        /\ Get(reply[c]).extensions = Some(<<"x">>)
        /\ Get(reply[c]).subprotocol = Some(SubQ)
        /\ result[c].exc.msg = "Bad status code: {}"

\* C8: for a 101 response with the correct accept value, an extension token
\* that is not offered fails the handshake with "Unknown extension: token",
\* otherwise a subprotocol that is not offered fails it with "Unknown
\* subprotocol: token", whatever the offers are, none at all included.
C8_UnknownCapabilityError ==
    \A c \in Calls :
        (pc[c] \in {"close_connection", "done"} /\ GotResponse(c)
             /\ Get(reply[c]).status = 101
             /\ Get(reply[c]).accept = Some(accept(Get(key[c])))) =>
            LET r == Get(reply[c])
                unknown == {t \in DeclaredExtensions(r) :
                                ~Offered(args[c].extensions, t)}
            IN  /\ unknown # {} =>
                      /\ Failed(c)
                      /\ Error(c).type = HandshakeError
                      /\ Error(c).msg = "Unknown extension: {}"
                      /\ Error(c).arg \in unknown
                /\ (unknown = {} /\ ~IsNone(r.subprotocol)
                        /\ ~Offered(args[c].subprotocols, Get(r.subprotocol))) =>
                      /\ Failed(c)
                      /\ Error(c) = Exc(HandshakeError, "Unknown subprotocol: {}",
                                        Get(r.subprotocol), "None")

\* C9: when the transport closes while the handshake waits for the response
\* headers, connect() fails with the transport error, and "Malformed HTTP
\* message" is the error of a response that does not parse only (or of a
\* read that was cancelled, which is C4's case).
C9_PrematureCloseIsTransportError ==
    \A c \in Calls :
        (pc[c] = "done" /\ ~IsNone(reply[c])) =>
            /\ Get(reply[c]).kind = "eof" =>
                  /\ result[c].kind = "raise"
                  /\ result[c].exc.type = TransportError
            /\ (result[c].kind = "raise"
                    /\ result[c].exc.msg = "Malformed HTTP message") =>
                  Get(reply[c]).kind \in {"parse_error", "cancelled"}

\* C10: a 101 response passes the accept verification if and only if its
\* accept header is accept(K) for the key K of this attempt; no header, the
\* digest without the GUID and the accept of another key all fail.
C10_AcceptExact ==
    \A c \in Calls :
        (pc[c] \in {"close_connection", "done"} /\ GotResponse(c)
             /\ Get(reply[c]).status = 101) =>
            LET r == Get(reply[c])
                rejected == /\ Failed(c)
                            /\ Error(c) = Exc(HandshakeError, "Invalid response",
                                              <<>>, "None")
                            /\ state[c] # OPEN
            IN  /\ rejected <=> r.accept # Some(accept(Get(key[c])))
                /\ r.accept \in ({None}
                        \cup {Some(accept_without_guid(k)) : k \in Keys}
                        \cup {Some(accept(k)) : k \in Keys \ {Get(key[c])}})
                   => rejected

C10_Witness ==
    \E c \in Calls :
        /\ pc[c] = "done"
        /\ GotResponse(c)
        /\ Get(reply[c]).status = 101
        /\ key[c] = Some(1)
        /\ Get(reply[c]).accept = Some(accept(2))
        /\ result[c].exc.msg = "Invalid response"
        /\ state[c] = CLOSED

\* the request headers of call c have been built and sent
Built(c) == raw_request_headers[c] # <<>>

HasHeader(h, name) == \E i \in 1..Len(h) : h[i][1] = name

HeaderCount(h, name) == Cardinality({i \in 1..Len(h) : h[i][1] = name})

\* the position of the only header called name
HeaderIndex(h, name) == CHOOSE i \in 1..Len(h) : h[i][1] = name

\* the (name, value) pairs read back from the bytes of a request
ParseRequest(text) ==
    LET lines == split(text, "\r\n")
    IN  [i \in 1..(Len(lines) - 3) |->
            <<lines[i + 1][1], SubSeq(lines[i + 1], 4, Len(lines[i + 1]))>>]

\* the Host value the design asks for, written out for each endpoint
ExpectedHost(uri) ==
    CASE uri.port = 80 /\ ~uri.secure -> <<"h">>
      [] uri.port = 443 /\ uri.secure -> <<"h">>
      [] uri.port = 80 /\ uri.secure -> <<"h", ":", "8", "0">>
      [] uri.port = 443 /\ ~uri.secure -> <<"h", ":", "4", "4", "3">>
      [] uri.port = 8080 -> <<"h", ":", "8", "0", "8", "0">>

\* C11: the Host header of the request is the host alone when the port is
\* the default of the scheme (443 secure, 80 not secure) and host:port in
\* every other case, in the recorded headers and in the bytes written.
C11_HostHeader ==
    \A c \in Calls :
        Built(c) =>
            /\ raw_request_headers[c][1] = <<"Host", ExpectedHost(args[c].uri)>>
            /\ HeaderCount(raw_request_headers[c], "Host") = 1
            /\ ParseRequest(written[c][1])[1] = <<"Host", ExpectedHost(args[c].uri)>>

C11_Witness ==
    \E c \in Calls :
        /\ Built(c)
        /\ args[c].uri.port = 80 /\ args[c].uri.secure
        /\ raw_request_headers[c][1] = <<"Host", <<"h", ":", "8", "0">>>>

\* C12: the request has an extension (subprotocol) offer header if and only
\* if the offer list is not empty, None and the empty list both giving no
\* header; its value is the tokens joined by ", " in the caller's order; and
\* it has an Origin header if and only if an origin is given.
OfferHeaderAsDesigned(h, name, available) ==
    /\ HasHeader(h, name) <=> (~IsNone(available) /\ Get(available) # <<>>)
    /\ HasHeader(h, name) =>
          /\ HeaderCount(h, name) = 1
          /\ h[HeaderIndex(h, name)][2] = join(<<",", " ">>, Get(available))

C12_OfferHeaders ==
    \A c \in Calls :
        Built(c) =>
            LET h == raw_request_headers[c]
            IN  /\ OfferHeaderAsDesigned(h, "Sec-WebSocket-Extensions",
                                         args[c].extensions)
                /\ OfferHeaderAsDesigned(h, "Sec-WebSocket-Protocol",
                                         args[c].subprotocols)
                /\ HasHeader(h, "Origin") <=> ~IsNone(args[c].origin)

\* C13: the headers are sent in the order they are built: Host, then Origin
\* and the offers, then the caller's extra headers (each key of a mapping
\* once, every pair of a sequence in the caller's order), then User-Agent,
\* then the handshake key; the bytes written carry the recorded sequence.
OptionalHeaderRank(name) ==
    CASE name = "Origin" -> 1
      [] name = "Sec-WebSocket-Extensions" -> 2
      [] name = "Sec-WebSocket-Protocol" -> 3
      [] OTHER -> 0

C13_HeaderOrder ==
    \A c \in Calls :
        Built(c) =>
            LET h == raw_request_headers[c]
                n == Len(h)
                items == args[c].extra_headers.items
                m == n - 2 - Len(items)
            IN  /\ m >= 1
                /\ h[1][1] = "Host"
                /\ \A i \in 2..m : OptionalHeaderRank(h[i][1]) > 0
                /\ \A i, j \in 2..m :
                      i < j => OptionalHeaderRank(h[i][1]) < OptionalHeaderRank(h[j][1])
                /\ SubSeq(h, m + 1, n - 2) = items
                /\ h[n - 1] = <<"User-Agent", USER_AGENT>>
                /\ h[n][1] = "Sec-WebSocket-Key"
                /\ args[c].extra_headers.kind = "mapping" =>
                      \A i \in 1..Len(items) : HeaderCount(h, items[i][1]) = 1
                /\ Len(written[c]) = 1
                /\ ParseRequest(written[c][1]) = h

C13_Witness ==
    \E c \in Calls :
        /\ Built(c)
        /\ args[c].extra_headers.kind = "pairs"
        /\ ~IsNone(args[c].origin)
        /\ HeaderCount(raw_request_headers[c], "X-A") = 2
        /\ Len(raw_request_headers[c]) = 6

Count(list, x) == Cardinality({i \in 1..Len(list) : list[i] = x})

\* C14: one connect() call opens the transport at most once, writes the
\* request at most once and before it reads, and once it has failed (or
\* ended) it opens, writes and reads nothing more.
C14_SingleAttempt ==
    /\ [](\A c \in Calls :
              /\ Count(log[c], "create_connection") <= 1
              /\ Count(log[c], "open") <= 1
              /\ Count(log[c], "write") <= 1
              /\ Count(log[c], "read") <= 1
              /\ Len(written[c]) <= 1
              /\ \A i, j \in 1..Len(log[c]) :
                    (log[c][i] = "read" /\ log[c][j] = "write") => j < i
              /\ Count(log[c], "read") = Count(log[c], "write"))
    /\ [][\A c \in Calls :
              (Failed(c) \/ pc[c] = "done") =>
                  /\ log'[c] = log[c]
                  /\ written'[c] = written[c]
                  /\ transport'[c] = "open" => transport[c] = "open"
                  /\ pc'[c] \in {"close_connection", "done"}
                  /\ pc[c] = "done" => (pc'[c] = "done" /\ result'[c] = result[c])]_vars

C14_Witness ==
    \E c \in Calls :
        /\ pc[c] = "done"
        /\ result[c].kind = "raise"
        /\ log[c] = <<"create_connection", "open", "write", "read", "abort">>
        /\ Len(written[c]) = 1

\* C15: the state of a connection starts as CONNECTING and only moves
\* forward: CONNECTING -> OPEN when connect() returns after a validated
\* response, CONNECTING -> CLOSED after a failure; never back to CONNECTING,
\* never CLOSED -> OPEN, and never OPEN -> CLOSED during connect().
C15_StateMovesForward ==
    [][\A c \in Calls :
           state'[c] # state[c] =>
               \/ state[c] = "absent" /\ state'[c] = CONNECTING
               \/ /\ state[c] = CONNECTING /\ state'[c] = OPEN
                  /\ result'[c] = Return
                  /\ pending'[c] = NoExc
                  /\ Get(reply'[c]).kind = "response"
                  /\ Get(reply'[c]).status = 101
                  /\ Get(reply'[c]).accept = Some(accept(Get(key[c])))
               \/ /\ state[c] = CONNECTING /\ state'[c] = CLOSED
                  /\ pending[c] # NoExc \/ result[c].kind = "raise"
                  /\ result'[c].kind = "raise"
                  /\ transport'[c] # "open"]_vars

C15_Witness ==
    \E c \in Calls :
        /\ state[c] = CLOSED
        /\ result[c].kind = "raise"
        /\ result[c].exc.msg = "Bad status code: {}"

\* what one call owns
Local(c) ==
    <<pc[c], args[c], transport[c], written[c], log[c], state[c], key[c],
      raw_request_headers[c], response_headers[c], extensions[c],
      subprotocol[c], opening_handshake[c], reply[c], incoming[c],
      pending[c], result[c]>>

\* C16: two concurrent connect() calls are independent: a step of one call
\* (its state transition, its negotiated result, the abort of its transport)
\* changes nothing of the other, and each call is validated against its own
\* key.
C16_CallsIndependent ==
    /\ [][\A c, d \in Calls :
              (c # d /\ Local(c)' # Local(c)) => Local(d)' = Local(d)]_vars
    /\ [](\A c \in Calls :
              state[c] = OPEN =>
                  Get(reply[c]).accept = Some(accept(Get(key[c]))))

C16_Witness ==
    /\ state["c1"] = OPEN /\ result["c1"] = Return /\ transport["c1"] = "open"
    /\ state["c2"] = CLOSED /\ result["c2"].kind = "raise"
    /\ transport["c2"] = "aborted"
    /\ key["c1"] # key["c2"]

\* the response r validates for call c: 101, the accept of this attempt's
\* key, and only offered capabilities
Validates(c, r) ==
    /\ r.kind = "response"
    /\ r.status = 101
    /\ r.accept = Some(accept(Get(key[c])))
    /\ \A t \in DeclaredExtensions(r) : Offered(args[c].extensions, t)
    /\ ~IsNone(r.subprotocol) =>
           Offered(args[c].subprotocols, Get(r.subprotocol))

\* the response read_response delivered validates
GoodReply(c) == GotResponse(c) /\ Validates(c, Get(reply[c]))

\* the server has answered with a response that validates, and handshake()
\* has not read it yet
GoodAnswer(c) ==
    /\ pc[c] = "read_response"
    /\ ~IsNone(incoming[c])
    /\ Validates(c, Get(incoming[c]))

\* the tokens of the extension headers a server may send, in its order
ExpectedTokens(header) ==
    CASE header = None -> <<>>
      [] header = Some(<<"a">>) -> <<ExtA>>
      [] header = Some(<<" ", "a">>) -> <<ExtA>>
      [] header = Some(<<"a", ",", " ", "b">>) -> <<ExtA, ExtB>>
      [] header = Some(<<"a", ",", "\t", "b">>) -> <<ExtA, ExtB>>
      [] header = Some(<<"a", ",", "x">>) -> <<ExtA, ExtX>>
      [] header = Some(<<"x">>) -> <<ExtX>>
      [] header = Some(<<>>) -> <<<<>>>>

NegotiatedExtensions(c) ==
    IF IsNone(extensions[c]) THEN <<>> ELSE Get(extensions[c])

ReturnedOpen(c) ==
    /\ result[c] = Return
    /\ state[c] = OPEN
    /\ transport[c] = "open"
    /\ NegotiatedExtensions(c) = ExpectedTokens(Get(reply[c]).extensions)
    /\ subprotocol[c] = Get(reply[c]).subprotocol

\* C17: with a valid endpoint and consistent TLS options, once the
\* transport is open the request gets written, and once the server has
\* answered 101 with the correct accept value and only offered capabilities
\* connect() returns a handle in state OPEN whose negotiated extensions are
\* the server's tokens in the server's order (none when it declared none)
\* and whose subprotocol is the server's choice (absent when it made none),
\* unless the caller cancels the call first.
C17_GoodAnswerOpens ==
    /\ [](\A c \in Calls : GoodReply(c) => ReturnedOpen(c))
    /\ \A c \in LiveCalls :
          (pc[c] = "create_connection" /\ transport[c] = "open") ~>
              ((pc[c] = "read_response" /\ Len(written[c]) = 1) \/ Cancelled(c))
    /\ \A c \in LiveCalls : GoodAnswer(c) ~> (ReturnedOpen(c) \/ Cancelled(c))

C17_Witness ==
    \E c \in Calls :
        /\ GoodReply(c)
        /\ result[c] = Return
        /\ args[c].extensions = Some(<<ExtA, ExtB>>)
        /\ extensions[c] = Some(<<ExtA>>)
        /\ subprotocol[c] = Some(SubP)

\* C18: the error connect() raises after a failed handshake is the error
\* handshake() raised, also when the forced close fails or is interrupted.
C18_OriginalErrorPropagates ==
    \A c \in Calls :
        (pc[c] = "done" /\ pending[c] # NoExc) => result[c] = Raise(pending[c])

\* C19: while the state is not OPEN no negotiated extensions and no
\* negotiated subprotocol are recorded on the connection; in particular
\* after a response whose extensions are all offered and whose subprotocol
\* is not among the offered ones (the TypeError of an absent offer list is
\* left aside: the offer list here is a list).
C19_NegotiationAllOrNothing ==
    \A c \in Calls :
        (state[c] # OPEN /\ Error(c).type # "TypeError") =>
            (IsNone(extensions[c]) /\ IsNone(subprotocol[c]))

\* C20: the opening handshake signal is resolved if and only if the state
\* is OPEN: it is resolved once, in the step that moves the state from
\* CONNECTING to OPEN, and never on a connection whose handshake failed.
C20_SignalIffOpen ==
    /\ [](\A c \in Calls :
              /\ opening_handshake[c] <=> state[c] = OPEN
              /\ Failed(c) => ~opening_handshake[c])
    /\ [][\A c \in Calls :
              opening_handshake'[c] # opening_handshake[c] =>
                  /\ ~opening_handshake[c]
                  /\ state[c] = CONNECTING
                  /\ state'[c] = OPEN]_vars

C20_Witness ==
    \E c \in Calls :
        /\ opening_handshake[c]
        /\ state[c] = OPEN
        /\ pc[c] = "done"

====
